---- MODULE Spec2Model ----
(***************************************************************************)
(* Model of mcq_exam.py: the line-oriented Markdown exam parser            *)
(* (parse_markdown_exam_text) and the interactive session (run_quiz) as it *)
(* is driven by main().                                                    *)
(*                                                                         *)
(* A document is a sequence of classified lines; the classification is the *)
(* one the parser's regular expressions make, in the order the parser      *)
(* tries them (QUESTION_RE, then CHOICE_RE, then CORRECT_RE, then the      *)
(* continuation test).  The parser consumes one line per step.  Standard   *)
(* output is modelled by what has been printed so far: how many question   *)
(* headers, how many Correct / Incorrect lines, the last running score,    *)
(* the kind of the last line, the final score and the pass / non-pass      *)
(* messages.  A text (a prompt, the content of a line) is a sequence of     *)
(* atoms, the units the sanitizer's and the parser's patterns tell apart.  *)
(* An uncaught exception is the position "Error".                          *)
(***************************************************************************)
EXTENDS Integers, Sequences, FiniteSets, TLC

(* ------------------------------ bounds --------------------------------- *)

\* varied documents have at most MaxBlocks question blocks
MaxBlocks == 2
\* uniform documents (single-select blocks only) have up to MaxLong blocks
MaxLong == 10
\* a raw input line has at most MaxRaw characters
MaxRaw == 2
\* values of --limit range over None and -1 .. MaxLimit
MaxLimit == 3
\* documents made of arbitrary lines have at most MaxLines lines
MaxLines == 4
\* texts made of arbitrary atoms have at most MaxText atoms
MaxText == 4
\* the content of an innermost details block has at most MaxItems items
MaxItems == 2

(* ----------------------------- optionals ------------------------------- *)

\* Python's None and a present value, for choose_n, limit and seed
None == <<>>
Some(x) == <<x>>
Val(o) == o[1]

(* --------------------------- random source ----------------------------- *)

\* states of the process-wide random source (module random)
RngStates == 0 .. 3

\* random.seed(seed)
SeedRng(seed) == seed % 4

\* one step of the generator
RngNext(s) == (s + 3) % 4

\* random._randbelow(n) drawn in state s (s is the state after the step)
RandBelow(s, n) == s % n

Swap(x, i, j) == [x EXCEPT ![i] = x[j], ![j] = x[i]]

\* random.shuffle(x): for i in reversed(range(1, len(x))):
\*     j = randbelow(i + 1); x[i], x[j] = x[j], x[i]
\* (i is 0-based as in Python; the sequence is 1-based)
RECURSIVE ShuffleFrom(_, _, _)
ShuffleFrom(x, r, i) ==
  IF i < 1 THEN [list |-> x, rng |-> r]
  ELSE LET r2 == RngNext(r)
           j  == RandBelow(r2, i + 1)
       IN ShuffleFrom(Swap(x, i + 1, j + 1), r2, i - 1)

Shuffle(x, r) == ShuffleFrom(x, r, Len(x) - 1)

\* (variant: the seed is not applied)
Reseed_never(seed, r) == r

\* if seed is not None: random.seed(seed)
Reseed(seed, r) == IF seed # <<>> THEN SeedRng(seed[1]) ELSE r

(* ------------------------------ sanitizer ------------------------------ *)

\* A text is a sequence of atoms.  "t" is one character that is neither
\* whitespace nor part of any markup, " " is one whitespace character, "<"
\* and ">" are the literal brackets, "&lt;" and "&gt;" the escaped ones,
\* "details" and "/details" the words the block patterns look for, and
\* "(Choose one.)", "(Choose two.)" and "(Choose three.)" are choose-count
\* annotations, each one atom.
AnnotationOf ==
  [one |-> "(Choose one.)", two |-> "(Choose two.)", three |-> "(Choose three.)"]
Annotations == {AnnotationOf[w] : w \in DOMAIN AnnotationOf}
AnnotationWord == [a \in Annotations |-> CHOOSE w \in DOMAIN AnnotationOf : AnnotationOf[w] = a]

\* the atoms that contain the character "&"
AmpAtoms == {"&lt;", "&gt;"}

\* the first position after i whose atom is one of stops, or 0
FirstAfter(text, i, stops) ==
  LET S == {j \in (i + 1) .. Len(text) : text[j] \in stops}
  IN IF S = {} THEN 0 ELSE CHOOSE j \in S : \A k \in S : j <= k

\* a non-greedy block that starts at i: open "details" ... open "/details"
\* close, ending at the first closing triple (re.IGNORECASE plays no part:
\* the words have one spelling here)
BlockEnd(text, i, open, close) ==
  IF text[i] = open /\ i + 1 <= Len(text) /\ text[i + 1] = "details"
  THEN LET S == {j \in (i + 4) .. Len(text) :
                    text[j - 2] = open /\ text[j - 1] = "/details" /\ text[j] = close}
       IN IF S = {} THEN 0 ELSE CHOOSE j \in S : \A k \in S : j <= k
  ELSE 0

\* where the match of pattern pat that starts at position i ends, or 0 when
\* the pattern does not match at i
\*   DETAILS_ENTITY_BLOCK_RE   &lt;details[\s\S]*?&lt;/details&gt;
\*   ANGLE_ENTITY_RE           &lt;[^&]*?&gt;
\*   DETAILS_HTML_BLOCK_RE     <details[\s\S]*?</details>
\*   ANY_HTML_TAG_RE           <[^>]+>
MatchEnd(pat, text, i) ==
  CASE pat = "DETAILS_ENTITY_BLOCK_RE" -> BlockEnd(text, i, "&lt;", "&gt;")
    [] pat = "ANGLE_ENTITY_RE" ->
         IF text[i] = "&lt;"
         THEN LET j == FirstAfter(text, i, AmpAtoms)
              IN IF j # 0 /\ text[j] = "&gt;" THEN j ELSE 0
         ELSE 0
    [] pat = "DETAILS_HTML_BLOCK_RE" -> BlockEnd(text, i, "<", ">")
    [] pat = "ANY_HTML_TAG_RE" ->
         IF text[i] = "<"
         THEN LET j == FirstAfter(text, i, {">"})
              IN IF j > i + 1 THEN j ELSE 0
         ELSE 0

\* pat.sub("", text): the leftmost matches, one after the other, in a single
\* pass over the text
RECURSIVE ReSub(_, _, _, _)
ReSub(pat, text, i, out) ==
  IF i > Len(text) THEN out
  ELSE LET e == MatchEnd(pat, text, i)
       IN IF e # 0 THEN ReSub(pat, text, e + 1, out)
          ELSE ReSub(pat, text, i + 1, Append(out, text[i]))

\* text.strip()
Strip(text) ==
  LET S == {i \in DOMAIN text : text[i] # " "}
  IN IF S = {} THEN <<>>
     ELSE SubSeq(text, CHOOSE i \in S : \A k \in S : i <= k,
                       CHOOSE i \in S : \A k \in S : i >= k)

\* re.sub(r"\s+", " ", text): of every run of whitespace the first is kept
Collapse(text) ==
  LET keep == {i \in DOMAIN text : text[i] # " " \/ i = 1 \/ text[i - 1] # " "}
      pos(k) == CHOOSE i \in keep : Cardinality({j \in keep : j <= i}) = k
  IN [k \in 1 .. Cardinality(keep) |-> text[pos(k)]]

\* (variant: the pass over the escaped fragments is missing)
clean_question_text_noentity(text) ==
  IF text = <<>> THEN text
  ELSE LET t1 == ReSub("DETAILS_ENTITY_BLOCK_RE", text, 1, <<>>)
           t3 == ReSub("DETAILS_HTML_BLOCK_RE", t1, 1, <<>>)
           t4 == ReSub("ANY_HTML_TAG_RE", t3, 1, <<>>)
       IN Strip(Collapse(t4))

\* clean_question_text
clean_question_text(text) ==
  IF text = <<>> THEN text
  ELSE LET t1 == ReSub("DETAILS_ENTITY_BLOCK_RE", text, 1, <<>>)
           t2 == ReSub("ANGLE_ENTITY_RE", t1, 1, <<>>)
           t3 == ReSub("DETAILS_HTML_BLOCK_RE", t2, 1, <<>>)
           t4 == ReSub("ANY_HTML_TAG_RE", t3, 1, <<>>)
       IN Strip(Collapse(t4))

(* ------------------------------- model --------------------------------- *)

WORD_TO_INT == [one |-> 1, two |-> 2, three |-> 3, four |-> 4, five |-> 5]

\* Question.__init__
Question(number, text) ==
  [number |-> number, text |-> Strip(text), choices |-> <<>>,
   correct_letters |-> <<>>, choose_n |-> None]

\* (variant: the choice is put in front)
add_choice_front(q, letter) == [q EXCEPT !.choices = <<letter>> \o @]

\* Question.add_choice: letter.upper(); CHOICE_RE only matches [A-Z]
add_choice(q, letter) == [q EXCEPT !.choices = Append(@, letter)]

\* Question.set_correct
set_correct(q, letters) == [q EXCEPT !.correct_letters = letters]

\* (variant: the number of correct letters replaces an earlier choose_n)
infer_choose_n_always(q) ==
  IF q.correct_letters # <<>>
  THEN [q EXCEPT !.choose_n = Some(Len(q.correct_letters))]
  ELSE q

\* Question.infer_choose_n
infer_choose_n(q) ==
  IF q.choose_n = None /\ q.correct_letters # <<>>
  THEN [q EXCEPT !.choose_n = Some(Len(q.correct_letters))]
  ELSE q

(* ------------------------------- parser -------------------------------- *)

\* the lines of a document, as the parser classifies them
\* "kind" is the first of QUESTION_RE, CHOICE_RE, CORRECT_RE that matches the
\* line ("other" when none does); "text" is the rest of a question line or
\* the content of another line; "wraps" says whether a line that matches
\* nothing passes the continuation test (it is not empty, does not start
\* with "-" and does not start with "Answer" once stripped)
TextLine(kind, n, text, l, ls, w) ==
  [kind |-> kind, number |-> n, text |-> text, letter |-> l, letters |-> ls, wraps |-> w]

\* the text of a question line that carries the annotation of the word ch
QText(ch) == IF ch = "" THEN <<"t">> ELSE <<"t", " ", AnnotationOf[ch]>>

QLine(n, ch) == TextLine("question", n, QText(ch), "", <<>>, FALSE)
ChoiceLine(l) == TextLine("choice", 0, <<>>, l, <<>>, FALSE)
AnswerLine(ls) == TextLine("answer", 0, <<>>, "", ls, FALSE)
OtherLine == TextLine("other", 0, <<>>, "", <<>>, FALSE)
WrapLine(text) == TextLine("other", 0, text, "", <<>>, TRUE)

\* CHOOSE_RE.search(qtext): the word of the first annotation of the text, or ""
ChooseWord(text) ==
  LET j == FirstAfter(text, 0, Annotations)
  IN IF j = 0 THEN "" ELSE AnnotationWord[text[j]]

\* finalization: current_q.infer_choose_n();
\* current_q.text = clean_question_text(current_q.text)
Finalize(q) == [infer_choose_n(q) EXCEPT !.text = clean_question_text(@)]

\* one iteration of the loop over the lines; st.current_q is <<>> (None) or <<q>>
ParseLine(st, line) ==
  IF line.kind = "question"
  THEN LET emitted == IF st.current_q # None
                      THEN Append(st.questions, Finalize(Val(st.current_q)))
                      ELSE st.questions
           q0 == Question(line.number, line.text)
           word == ChooseWord(line.text)
           q1 == IF word # ""
                 THEN [q0 EXCEPT !.choose_n = Some(WORD_TO_INT[word])]
                 ELSE q0
       IN [questions |-> emitted, current_q |-> Some(q1)]
  ELSE IF st.current_q = None THEN st
  ELSE IF line.kind = "choice"
  THEN [st EXCEPT !.current_q = Some(add_choice(Val(st.current_q), line.letter))]
  ELSE IF line.kind = "answer"
  THEN [st EXCEPT !.current_q =
          Some(infer_choose_n(set_correct(Val(st.current_q), line.letters)))]
  ELSE IF line.wraps
  THEN [st EXCEPT !.current_q =
          Some([Val(st.current_q) EXCEPT !.text = @ \o <<" ">> \o Strip(line.text)])]
  ELSE st

\* (variant: every question counts as well formed)
HasChoices_any(q) == TRUE

HasChoices(q) == q.choices # <<>>

\* after the loop: finalize the last question if it has choices, then keep
\* only the questions that have choices
FinishParse(st) ==
  LET all == IF st.current_q # None /\ Val(st.current_q).choices # <<>>
             THEN Append(st.questions, Finalize(Val(st.current_q)))
             ELSE st.questions
  IN SelectSeq(all, HasChoices)

(* ------------------------------ session -------------------------------- *)

ToSet(s) == {s[i] : i \in DOMAIN s}

Min(a, b) == IF a < b THEN a ELSE b
Max(a, b) == IF a > b THEN a ELSE b

\* questions[:limit]
Slice(x, limit) ==
  LET n == Len(x)
      stop == IF limit < 0 THEN Max(n + limit, 0) ELSE Min(limit, n)
  IN SubSeq(x, 1, stop)

\* the characters a raw input line is made of, and ch.upper() for the
\* alphabetic ones ([A-Za-z]); "," stands for any separator
UpperOf == [A |-> "A", B |-> "B", c |-> "C", D |-> "D"]
RawChars == DOMAIN UpperOf \cup {","}
IsAlpha(ch) == ch \in DOMAIN UpperOf

\* [ch.upper() for ch in re.findall(r"[A-Za-z]", raw)]
ExtractLetters(raw) ==
  LET found == SelectSeq(raw, IsAlpha)
  IN [i \in DOMAIN found |-> UpperOf[found[i]]]

\* Python truthiness of choose_n (None and 0 are falsy)
Truthy(n) == n # None /\ Val(n) # 0

\* multi = (q.choose_n and q.choose_n > 1) or len(q.correct_letters) > 1
Multi(q) == (Truthy(q.choose_n) /\ Val(q.choose_n) > 1) \/ Len(q.correct_letters) > 1

\* (variant: the annotation is ignored and only the answer line counts)
ExpectedN_len(q) == Len(q.correct_letters)

\* expected_n = q.choose_n or len(q.correct_letters)
ExpectedN(q) == IF Truthy(q.choose_n) THEN Val(q.choose_n) ELSE Len(q.correct_letters)

\* (variant: the test against the question's letters is missing)
Validate_noletters(q, valid_letters, ls) ==
  IF ls = <<>> THEN "empty"
  ELSE IF Multi(q) /\ Cardinality(ToSet(ls)) # ExpectedN(q) THEN "count"
  ELSE ""

\* the three tests of the validation loop, in order; "" when the input passes
Validate(q, valid_letters, ls) ==
  IF ls = <<>> THEN "empty"
  ELSE IF ~(ToSet(ls) \subseteq valid_letters) THEN "invalid"
  ELSE IF Multi(q) /\ Cardinality(ToSet(ls)) # ExpectedN(q) THEN "count"
  ELSE ""

\* (variant: a multi-select answer counts when it contains every correct letter)
IsCorrect_superset(q, ls) ==
  IF Multi(q) THEN ToSet(q.correct_letters) \subseteq ToSet(ls)
  ELSE ls[1] = q.correct_letters[1]

\* is_correct, for an input that passed validation (the single-select branch
\* is only evaluated when q.correct_letters[0] exists)
IsCorrect(q, ls) ==
  IF Multi(q) THEN ToSet(ls) = ToSet(q.correct_letters)
  ELSE ls[1] = q.correct_letters[1]

\* (variant: every accepted answer is counted as correct)
NewCorrect_always(c, ok) == c + 1

\* if is_correct: correct += 1
NewCorrect(c, ok) == IF ok THEN c + 1 ELSE c

\* (variant: the question is not counted)
CountQuestion_skip(rt) == rt

\* running_total += 1, at the top of the loop body
CountQuestion(rt) == rt + 1

\* (variant: strictly above the threshold)
Passes_strict(c, t) == 10 * c > 7 * t

\* final_score >= 0.7 with final_score = correct/total.  The quotient of two
\* integers below 2^50 is a double that is >= the double 0.7 exactly when
\* the rational correct/total is >= 7/10.
Passes(c, t) == 10 * c >= 7 * t

\* (variant: choices = q.choices, the shuffle works on the question's own list)
Displayed_alias(q, working) == [infer_choose_n(q) EXCEPT !.choices = working]

\* the question after the body of the loop has displayed it:
\* choices = list(q.choices) is a copy, so shuffling the working list leaves
\* q.choices alone; q.infer_choose_n()
Displayed(q, working) == infer_choose_n(q)

VARIABLES
  doc,            \* the document handed to main(), as classified lines
  cfg,            \* the command line: shuffle flags, limit, seed
  rng,            \* state of the random source
  pc,             \* position of the program
  lineNo,         \* lines of doc the parser has consumed
  current_q,      \* the parser's question under construction, None or <<q>>
  parsed,         \* the parser's list of questions, then main's list
                  \* (shuffled in place by run_quiz)
  questions,      \* run_quiz's list after the limit
  idx,            \* 1-based index of the current question (0 before the first)
  choices,        \* working copy of the current question's choice letters
  letters,        \* letters extracted from the accepted input
  is_correct,     \* result of the evaluation of the accepted input
  correct,
  total,
  running_total,
  nHeaders,       \* "Question i of n" lines printed
  nCorrectMsgs,   \* "Correct!" lines printed
  nIncorrectMsgs, \* "Incorrect." lines printed
  printedScore,   \* last "Score: c/n" line printed, None before the first
  finalScore,     \* "Your final score: c/t" line, None when not printed
  verdict,        \* the pass ("pass") and non-pass ("fail") messages printed
  lastMsg,        \* kind of the last line printed
  err,            \* uncaught exception, "" when none
  run,            \* "first", or how the second run of the session was started
  firstOrder,     \* question numbers in the order of the first run, None before
  raw_text,       \* the text handed to clean_question_text
  cleaned,        \* clean_question_text(raw_text), None before the call
  recleaned       \* clean_question_text of that result, None before the call

vars == <<doc, cfg, rng, pc, lineNo, current_q, parsed, questions, idx, choices, letters, is_correct,
          correct, total, running_total, nHeaders, nCorrectMsgs, nIncorrectMsgs, printedScore,
          finalScore, verdict, lastMsg, err, run, firstOrder, raw_text, cleaned, recleaned>>

printed == <<nHeaders, nCorrectMsgs, nIncorrectMsgs, printedScore, finalScore, verdict, lastMsg>>
counters == <<correct, total, running_total>>
san == <<raw_text, cleaned, recleaned>>
history == <<run, firstOrder>>

(* ----------------------------- the inputs ------------------------------ *)

ChoiceLetters == <<"A", "B", "C">>

\* a question block: question line, nc choice lines, optional answer line
Block(n, shape) ==
  <<QLine(n, shape.choose)>>
  \o [i \in 1 .. shape.nc |-> ChoiceLine(ChoiceLetters[i])]
  \o (IF shape.ans = <<>> THEN <<>> ELSE <<AnswerLine(shape.ans)>>)

\* shapes of the blocks of the varied documents: without annotation or with
\* "(Choose two.)", with no, one or two correct letters; and "(Choose one.)"
\* with two correct letters
BlockShapes ==
  [choose : {"", "two"}, nc : {3}, ans : {<<>>, <<"A">>, <<"A", "C">>}]
  \cup {[choose |-> "one", nc |-> 3, ans |-> <<"A", "C">>]}

SimpleShape == [choose |-> "", nc |-> 2, ans |-> <<"A">>]
PickTwoShape == [choose |-> "two", nc |-> 3, ans |-> <<"A", "C">>]

RECURSIVE DocOf(_, _)
DocOf(shapes, n) ==
  IF n > Len(shapes) THEN <<>>
  ELSE Block(n, shapes[n]) \o DocOf(shapes, n + 1)

\* a preamble line, then up to MaxBlocks blocks: the block at position p (if
\* there is one) of any shape, the others single-select
VariedDocs ==
  {<<OtherLine>>}
  \cup {<<OtherLine>> \o DocOf([i \in 1 .. k |-> IF i = p THEN shape ELSE SimpleShape], 1) :
          k \in 1 .. MaxBlocks, p \in 1 .. MaxBlocks, shape \in BlockShapes}

\* blocks of two choices A, B whose answer line names a letter that is not a
\* choice (single-select, multi-select by its answer, multi-select by its
\* annotation), and a block of two choices that asks for three
OffKeyShapes ==
  {[choose |-> "", nc |-> 2, ans |-> <<"C">>],
   [choose |-> "", nc |-> 2, ans |-> <<"A", "C">>],
   [choose |-> "two", nc |-> 2, ans |-> <<"C">>]}
ChooseThreeShape == [choose |-> "three", nc |-> 2, ans |-> <<"A", "B">>]

\* one such block, alone or followed by a single-select block
OddDocs ==
  {DocOf(<<shape>>, 1) : shape \in OffKeyShapes \cup {ChooseThreeShape}}
  \cup {DocOf(<<shape, SimpleShape>>, 1) : shape \in OffKeyShapes \cup {ChooseThreeShape}}

\* k blocks, alternately pick-two and single-select
MixedDoc(k) == DocOf([i \in 1 .. k |-> IF i % 2 = 1 THEN PickTwoShape ELSE SimpleShape], 1)

\* k single-select blocks
UniformDoc(k) == DocOf([i \in 1 .. k |-> SimpleShape], 1)

Limits == {None} \cup {Some(n) : n \in -1 .. MaxLimit}
Seeds == {None, Some(1)}

\* the command line without options
PlainConfig == [shuffle_questions |-> FALSE, shuffle_choices |-> FALSE,
                limit |-> None, seed |-> None]

\* every --limit, without shuffling
LimitConfigs == {[PlainConfig EXCEPT !.limit = l] : l \in Limits}

\* at least one of the shuffle flags, with and without a seed, with and
\* without a limit
ShuffleConfigs ==
  {c \in [shuffle_questions : BOOLEAN, shuffle_choices : BOOLEAN,
          limit : {None, Some(1)}, seed : Seeds] :
     c.shuffle_questions \/ c.shuffle_choices}

Inputs == UNION {[1 .. n -> RawChars] : n \in 0 .. MaxRaw}

(* ------------------------------ actions -------------------------------- *)

\* the runs explored: the varied documents without options; the mixed
\* documents under every limit; a mixed document under the shuffle options
\* (the state of the random source is arbitrary when no seed is given); the
\* uniform documents of up to MaxLong questions without options; the
\* documents with an off-key or over-asking block without options
\* the program before its first step
Fresh ==
  /\ pc = "parse"
  /\ lineNo = 0
  /\ current_q = None
  /\ parsed = <<>>
  /\ questions = <<>>
  /\ idx = 0
  /\ choices = <<>>
  /\ letters = <<>>
  /\ is_correct = FALSE
  /\ correct = 0
  /\ total = 0
  /\ running_total = 0
  /\ nHeaders = 0
  /\ nCorrectMsgs = 0
  /\ nIncorrectMsgs = 0
  /\ printedScore = None
  /\ finalScore = None
  /\ verdict = {}
  /\ lastMsg = ""
  /\ err = ""
  /\ run = "first"
  /\ firstOrder = None
  /\ raw_text = <<>>
  /\ cleaned = None
  /\ recleaned = None

Init ==
  /\ \/ doc \in VariedDocs /\ cfg = PlainConfig /\ rng = 0
     \/ doc \in {MixedDoc(k) : k \in 1 .. MaxLimit} /\ cfg \in LimitConfigs /\ rng = 0
     \/ /\ doc = MixedDoc(MaxBlocks)
        /\ cfg \in ShuffleConfigs
        /\ rng \in (IF cfg.seed = None THEN RngStates ELSE {0})
     \/ doc \in {UniformDoc(k) : k \in 1 .. MaxLong} /\ cfg = PlainConfig /\ rng = 0
     \/ doc \in OddDocs /\ cfg = PlainConfig /\ rng = 0
  /\ Fresh

\* the numbers of the questions of a list, in its order
Order(qs) == [i \in DOMAIN qs |-> qs[i].number]

session == <<rng, questions, idx, choices, letters, is_correct, counters, printed, err>>

\* parse_markdown_exam_text: one iteration of the loop over the lines
ParseStep ==
  /\ pc = "parse"
  /\ lineNo < Len(doc)
  /\ LET st == ParseLine([questions |-> parsed, current_q |-> current_q], doc[lineNo + 1])
     IN /\ parsed' = st.questions
        /\ current_q' = st.current_q
  /\ lineNo' = lineNo + 1
  /\ UNCHANGED <<doc, cfg, san, history, pc, session>>

\* parse_markdown_exam_text: the end of the loop, the result returned to main
ParseEnd ==
  /\ pc = "parse"
  /\ lineNo = Len(doc)
  /\ parsed' = FinishParse([questions |-> parsed, current_q |-> current_q])
  /\ pc' = "main"
  /\ UNCHANGED <<doc, cfg, san, history, lineNo, current_q, session>>

\* main() after parsing: exit 4 when nothing was parsed; otherwise run_quiz
\* up to the head of its loop (seed, shuffle, limit, counters)
Main ==
  /\ pc = "main"
  /\ LET qs == parsed
         r0 == Reseed(cfg.seed, rng)
         sh == IF cfg.shuffle_questions THEN Shuffle(qs, r0)
               ELSE [list |-> qs, rng |-> r0]
         local == IF cfg.limit # None THEN Slice(sh.list, Val(cfg.limit)) ELSE sh.list
     IN IF qs = <<>>
        THEN /\ pc' = "Exit4"
             /\ lastMsg' = "noquestions"
             /\ UNCHANGED <<rng, parsed, questions, counters, nHeaders, nCorrectMsgs, nIncorrectMsgs,
                            printedScore, finalScore, verdict, firstOrder>>
        ELSE /\ pc' = "Loop"
             /\ rng' = sh.rng
             /\ parsed' = sh.list
             /\ questions' = local
             /\ correct' = 0
             /\ total' = Len(local)
             /\ running_total' = 0
             /\ firstOrder' = IF run = "first" THEN Some(Order(local)) ELSE firstOrder
             /\ UNCHANGED printed
  /\ UNCHANGED <<doc, cfg, san, run, lineNo, current_q, idx, choices, letters, is_correct, err>>

\* the head of the for loop and the body down to the prompt: count the
\* question, print it, copy (and shuffle) its choices.  letters and
\* is_correct of the previous question are dead here and are reset.
NextQuestion ==
  /\ pc \in {"Loop", "Scored"}
  /\ idx < Len(questions)
  /\ LET q == questions[idx + 1]
         sh == IF cfg.shuffle_choices THEN Shuffle(q.choices, rng)
               ELSE [list |-> q.choices, rng |-> rng]
     IN /\ idx' = idx + 1
        /\ running_total' = CountQuestion(running_total)
        /\ nHeaders' = nHeaders + 1
        /\ choices' = sh.list
        /\ rng' = sh.rng
        /\ questions' = [questions EXCEPT ![idx + 1] = Displayed(q, sh.list)]
  /\ letters' = <<>>
  /\ is_correct' = FALSE
  /\ lastMsg' = "choices"
  /\ pc' = "AwaitingInput"
  /\ UNCHANGED <<doc, cfg, san, history, lineNo, current_q, parsed, correct, total, nCorrectMsgs, nIncorrectMsgs, printedScore,
                 finalScore, verdict, err>>

\* one pass of the validation loop on the input line raw
SubmitInput(raw) ==
  /\ pc = "AwaitingInput"
  /\ LET q == questions[idx]
         ls == ExtractLetters(raw)
         reject == Validate(q, ToSet(choices), ls)
         ok == IsCorrect(q, ls)
     IN IF reject # ""
        THEN /\ lastMsg' = reject
             /\ UNCHANGED <<pc, letters, is_correct, correct, nCorrectMsgs,
                            nIncorrectMsgs, printedScore, err>>
        ELSE IF ~Multi(q) /\ q.correct_letters = <<>>
        THEN \* q.correct_letters[0] raises IndexError
             /\ pc' = "Error"
             /\ err' = "IndexError"
             /\ letters' = ls
             /\ UNCHANGED <<is_correct, correct, nCorrectMsgs, nIncorrectMsgs,
                            printedScore, lastMsg>>
        ELSE /\ pc' = "Scored"
             /\ letters' = ls
             /\ is_correct' = ok
             /\ correct' = NewCorrect(correct, ok)
             /\ nCorrectMsgs' = IF ok THEN nCorrectMsgs + 1 ELSE nCorrectMsgs
             /\ nIncorrectMsgs' = IF ok THEN nIncorrectMsgs ELSE nIncorrectMsgs + 1
             /\ printedScore' = Some(<<correct', running_total>>)
             /\ lastMsg' = "score"
             /\ err' = err
  /\ UNCHANGED <<doc, cfg, san, history, lineNo, current_q, rng, parsed, questions, idx, choices, total,
                 running_total, nHeaders, finalScore, verdict>>

\* (variant: the loop is left with break instead of return)
EndOfInput_break ==
  /\ pc = "AwaitingInput"
  /\ pc' = "Scored"
  /\ lastMsg' = "closed"
  /\ UNCHANGED <<doc, cfg, san, history, lineNo, current_q, rng, parsed, questions, idx, choices, letters, is_correct,
                 counters, nHeaders, nCorrectMsgs, nIncorrectMsgs, printedScore, finalScore, verdict, err>>

\* input() raises EOFError: print "Input closed." and return
EndOfInput ==
  /\ pc = "AwaitingInput"
  /\ pc' = "End"
  /\ lastMsg' = "closed"
  /\ UNCHANGED <<doc, cfg, san, history, lineNo, current_q, rng, parsed, questions, idx, choices, letters, is_correct,
                 counters, nHeaders, nCorrectMsgs, nIncorrectMsgs, printedScore, finalScore, verdict, err>>

\* after the loop: the final score, the ratio, the pass / non-pass message
FinalSummary ==
  /\ pc \in {"Loop", "Scored"}
  /\ idx = Len(questions)
  /\ finalScore' = Some(<<correct, total>>)
  /\ IF total = 0
     THEN \* correct/total raises ZeroDivisionError
          /\ pc' = "Error"
          /\ err' = "ZeroDivisionError"
          /\ lastMsg' = "final"
          /\ verdict' = verdict
     ELSE /\ pc' = "Done"
          /\ verdict' = verdict \cup {IF Passes(correct, total) THEN "pass" ELSE "fail"}
          /\ lastMsg' = "verdict"
          /\ err' = err
  /\ UNCHANGED <<doc, cfg, san, history, lineNo, current_q, rng, parsed, questions, idx, choices, letters, is_correct,
                 counters, nHeaders, nCorrectMsgs, nIncorrectMsgs, printedScore>>

Next ==
  \/ ParseStep
  \/ ParseEnd
  \/ Main
  \/ NextQuestion
  \/ \E raw \in Inputs : SubmitInput(raw)
  \/ EndOfInput
  \/ FinalSummary

Spec == Init /\ [][Next]_vars

TypeOK ==
  /\ pc \in {"parse", "main", "Exit4", "Loop", "AwaitingInput", "Scored", "Done", "End", "Error",
             "clean", "cleaned", "recleaned"}
  /\ idx \in 0 .. Len(questions)
  /\ run \in {"first", "fresh", "same"}

(* ----------------------------- a second run ---------------------------- *)

\* the session's variables as they are before run_quiz is entered
ResetSession ==
  /\ questions' = <<>>
  /\ idx' = 0
  /\ choices' = <<>>
  /\ letters' = <<>>
  /\ is_correct' = FALSE
  /\ correct' = 0
  /\ total' = 0
  /\ running_total' = 0
  /\ nHeaders' = 0
  /\ nCorrectMsgs' = 0
  /\ nIncorrectMsgs' = 0
  /\ printedScore' = None
  /\ finalScore' = None
  /\ verdict' = {}
  /\ lastMsg' = ""
  /\ err' = ""

\* the program is started again on the same document with the same command
\* line: a new process, whose random source starts in any state, parses the
\* document anew
Restart ==
  /\ run = "first"
  /\ pc \in {"Done", "End"}
  /\ run' = "fresh"
  /\ pc' = "parse"
  /\ lineNo' = 0
  /\ current_q' = None
  /\ parsed' = <<>>
  /\ rng' \in RngStates
  /\ ResetSession
  /\ UNCHANGED <<doc, cfg, san, firstOrder>>

\* run_quiz is called a second time in the same process, with the same
\* arguments: the list object it was handed the first time (which
\* random.shuffle has reordered in place) and the same options
CallAgain ==
  /\ run = "first"
  /\ pc \in {"Done", "End"}
  /\ run' = "same"
  /\ pc' = "main"
  /\ ResetSession
  /\ UNCHANGED <<doc, cfg, san, firstOrder, lineNo, current_q, parsed, rng>>

\* a document of two or more questions, shuffled under a seed
InitRerun ==
  /\ doc \in {MixedDoc(k) : k \in 2 .. MaxLimit}
  /\ cfg \in {[PlainConfig EXCEPT !.shuffle_questions = TRUE, !.seed = Some(s)] : s \in RngStates}
  /\ rng = 0
  /\ Fresh

NextRerun ==
  \/ Next
  \/ Restart
  \/ CallAgain

SpecRerun == InitRerun /\ [][NextRerun]_vars

(* --------------------------- the parser alone -------------------------- *)

\* the lines an arbitrary document is made of: question lines without and
\* with an annotation, choice lines, answer lines of one and of two letters,
\* an empty line, and continuation lines without and with an annotation
ParseLines ==
  {QLine(0, ""), QLine(0, "two"), ChoiceLine("A"), ChoiceLine("B"),
   AnswerLine(<<"A">>), AnswerLine(<<"A", "B">>),
   OtherLine, WrapLine(<<"t">>), WrapLine(<<AnnotationOf["three"]>>)}

\* every question line gets its position in the document as its number
Numbered(d) ==
  [i \in DOMAIN d |-> IF d[i].kind = "question" THEN [d[i] EXCEPT !.number = i] ELSE d[i]]

AnyDocs == {Numbered(d) : d \in UNION {[1 .. n -> ParseLines] : n \in 0 .. MaxLines}}

\* blocks of a question line, one or three choice lines and an answer line
CanonShapes == [choose : {"", "two"}, nc : {1, 3}, ans : {<<"A">>, <<"C", "A">>}]

CanonDocs ==
  {DocOf(shapes, 1) : shapes \in UNION {[1 .. k -> CanonShapes] : k \in 1 .. MaxBlocks}}

InitParse ==
  /\ doc \in AnyDocs \cup CanonDocs
  /\ cfg = PlainConfig
  /\ rng = 0
  /\ Fresh

NextParse ==
  \/ ParseStep
  \/ ParseEnd

SpecParse == InitParse /\ [][NextParse]_vars

(* -------------------------- the sanitizer alone ------------------------ *)

\* the atoms of the texts handed to the sanitizer
Atoms == {"t", " ", "<", ">", "&lt;", "&gt;", "details", "/details"}

\* every text of up to MaxText atoms
AnyTexts == UNION {[1 .. n -> Atoms] : n \in 0 .. MaxText}

\* the two forms of markup: literal and entity-escaped brackets
Forms == {[open |-> "<", close |-> ">"], [open |-> "&lt;", close |-> "&gt;"]}

\* a tag fragment and a details block around a content
Tag(f, name) == <<f.open>> \o name \o <<f.close>>
Details(f, content) ==
  <<f.open, "details", f.close>> \o content \o <<f.open, "/details", f.close>>

\* plain text, whitespace and tag fragments of either form
FlatItems == {<<"t">>, <<" ">>} \cup {Tag(f, <<"t">>) : f \in Forms}

RECURSIVE Concats(_, _)
\* the concatenations of up to n texts of the set S
Concats(S, n) ==
  IF n = 0 THEN {<<>>}
  ELSE LET shorter == Concats(S, n - 1)
       IN shorter \cup {a \o b : a \in shorter, b \in S}

\* flat items and flat details blocks
Items == FlatItems \cup {Details(f, c) : f \in Forms, c \in Concats(FlatItems, MaxItems)}

\* a text of the set S or the empty text
Maybe(S) == S \cup {<<>>}

\* flat items and details blocks around at most one flat item
SmallItems == FlatItems \cup {Details(f, c) : f \in Forms, c \in Maybe(FlatItems)}

\* up to two items side by side, one of them small
Pairs ==
  {a \o b : a \in Maybe(Items), b \in Maybe(SmallItems)}
  \cup {b \o a : a \in Maybe(Items), b \in Maybe(SmallItems)}

\* a details block around a details block, with an item after the inner and
\* after the outer block
NestedTexts ==
  {Details(f, Details(g, a) \o b) \o c :
     f \in Forms, g \in Forms, a \in Maybe(FlatItems), b \in Maybe(FlatItems),
     c \in Maybe(SmallItems)}

\* well-formed texts: plain text with tag fragments and flat or nested
\* details blocks, each in literal or entity-escaped form
WellFormedTexts == Pairs \cup {Details(f, c) : f \in Forms, c \in Pairs} \cup NestedTexts

InitClean ==
  /\ doc = <<>>
  /\ cfg = PlainConfig
  /\ rng = 0
  /\ lineNo = 0
  /\ current_q = None
  /\ parsed = <<>>
  /\ questions = <<>>
  /\ idx = 0
  /\ choices = <<>>
  /\ letters = <<>>
  /\ is_correct = FALSE
  /\ correct = 0
  /\ total = 0
  /\ running_total = 0
  /\ nHeaders = 0
  /\ nCorrectMsgs = 0
  /\ nIncorrectMsgs = 0
  /\ printedScore = None
  /\ finalScore = None
  /\ verdict = {}
  /\ lastMsg = ""
  /\ err = ""
  /\ run = "first"
  /\ firstOrder = None
  /\ pc = "clean"
  /\ raw_text \in AnyTexts \cup WellFormedTexts
  /\ cleaned = None
  /\ recleaned = None

\* clean_question_text(raw_text)
Clean ==
  /\ pc = "clean"
  /\ cleaned' = Some(clean_question_text(raw_text))
  /\ pc' = "cleaned"
  /\ UNCHANGED <<doc, cfg, history, rng, lineNo, current_q, parsed, session, raw_text, recleaned>>

\* clean_question_text applied to its own result
CleanAgain ==
  /\ pc = "cleaned"
  /\ recleaned' = Some(clean_question_text(Val(cleaned)))
  /\ pc' = "recleaned"
  /\ UNCHANGED <<doc, cfg, history, rng, lineNo, current_q, parsed, session, raw_text, cleaned>>

NextClean ==
  \/ Clean
  \/ CleanAgain

SpecClean == InitClean /\ [][NextClean]_vars

(* ------------------------------ properties ----------------------------- *)

InSession == pc \in {"Loop", "AwaitingInput", "Scored", "Done", "End", "Error"}

\* number of questions answered with an accepted input
Answered == nCorrectMsgs + nIncorrectMsgs

\* multi-select mode as the specification words it
MultiSelectMode(q) ==
  (q.choose_n # None /\ Val(q.choose_n) > 1) \/ Len(q.correct_letters) > 1

\* expectedN as the specification words it
ClaimedExpectedN(q) ==
  IF q.choose_n # None THEN Val(q.choose_n) ELSE Len(q.correct_letters)

\* C1: an accepted answer is scored correct exactly when, in multi-select
\* mode, the set of distinct extracted letters equals the set of correct
\* letters, and in single-select mode, the first extracted letter is the
\* sole correct letter.
C1_ScoringRule ==
  pc = "Scored" =>
    LET q == questions[idx]
    IN is_correct <=>
         IF MultiSelectMode(q)
         THEN ToSet(letters) = ToSet(q.correct_letters)
         ELSE Len(q.correct_letters) = 1 /\ letters[1] = q.correct_letters[1]

\* a pick-two question with correct letters A, C answered "cA"
C1_Witness ==
  /\ pc = "Scored"
  /\ is_correct
  /\ MultiSelectMode(questions[idx])
  /\ questions[idx].correct_letters = <<"A", "C">>
  /\ letters = <<"C", "A">>

\* C2: in multi-select mode an input made only of valid letters is accepted
\* and scored if and only if its number of distinct letters is expectedN;
\* otherwise it is rejected with the count message and the same question is
\* prompted again.
C2_CountEnforced ==
  (pc = "AwaitingInput" /\ MultiSelectMode(questions[idx])) =>
    \A raw \in Inputs :
      LET q == questions[idx]
          ls == ExtractLetters(raw)
      IN (ls # <<>> /\ ToSet(ls) \subseteq ToSet(q.choices)) =>
           IF Cardinality(ToSet(ls)) = ClaimedExpectedN(q)
           THEN /\ ENABLED (SubmitInput(raw) /\ pc' = "Scored")
                /\ ~ ENABLED (SubmitInput(raw) /\ pc' # "Scored")
           ELSE /\ ENABLED (SubmitInput(raw) /\ pc' = "AwaitingInput"
                            /\ idx' = idx /\ lastMsg' = "count")
                /\ ~ ENABLED (SubmitInput(raw) /\ pc' # "AwaitingInput")

\* a question annotated "(Choose two.)" with one correct letter: an input of
\* two distinct letters was accepted
C2_Witness ==
  /\ pc = "Scored"
  /\ questions[idx].choose_n = Some(2)
  /\ Len(questions[idx].correct_letters) = 1
  /\ Cardinality(ToSet(letters)) = 2

\* the three reasons for which the specification rejects an input
ClaimedRejected(q, ls) ==
  \/ ls = <<>>
  \/ ~ (ToSet(ls) \subseteq ToSet(q.choices))
  \/ MultiSelectMode(q) /\ Cardinality(ToSet(ls)) # ClaimedExpectedN(q)

\* C3: a rejected input (no letters, a letter that is not a choice letter, a
\* wrong count in multi-select mode) leaves the question index, the correct
\* count and the running total unchanged and the session awaiting input for
\* the same question.
C3_RejectedStays ==
  pc = "AwaitingInput" =>
    \A raw \in Inputs :
      ClaimedRejected(questions[idx], ExtractLetters(raw)) =>
        /\ ENABLED SubmitInput(raw)
        /\ ~ ENABLED (SubmitInput(raw)
                      /\ ~ (/\ pc' = "AwaitingInput"
                            /\ idx' = idx
                            /\ correct' = correct
                            /\ running_total' = running_total
                            /\ nHeaders' = nHeaders
                            /\ Answered' = Answered))

\* an invalid letter was rejected on the second question
C3_Witness ==
  /\ pc = "AwaitingInput"
  /\ lastMsg = "invalid"
  /\ idx = 2
  /\ running_total = 2

\* line of the document on which question number n starts
QuestionLineOf(n) ==
  CHOOSE i \in DOMAIN doc : doc[i].kind = "question" /\ doc[i].number = n

\* the block of question number n has no answer line
NoAnswerLine(n) ==
  LET i == QuestionLineOf(n)
  IN \A j \in (i + 1) .. Len(doc) :
       (\A k \in (i + 1) .. j : doc[k].kind # "question") => doc[j].kind # "answer"

\* C4: a question with choices and no answer line is emitted with empty
\* correct letters, and in the session every accepted input for it is scored
\* as incorrect, without an error.
C4_NoAnswerScoredIncorrect ==
  /\ pc # "parse" =>
       \A i \in DOMAIN parsed :
         NoAnswerLine(parsed[i].number) => parsed[i].correct_letters = <<>>
  /\ (InSession /\ idx >= 1 /\ NoAnswerLine(questions[idx].number)) =>
       /\ pc # "Error"
       /\ pc = "Scored" => ~ is_correct

\* C5: the running score printed after the N-th answer is C/N for C correct
\* answers, and the final summary prints C/T with T the number of questions
\* of the session after the limit, T the last running total, 0 <= C <= T.
C5_ScoreAccounting ==
  /\ printedScore # None => printedScore = Some(<<nCorrectMsgs, Answered>>)
  /\ finalScore # None =>
       LET C == Val(finalScore)[1]
           T == Val(finalScore)[2]
       IN /\ C = nCorrectMsgs
          /\ T = Len(questions)
          /\ T = running_total
          /\ printedScore # None => T = Val(printedScore)[2]
          /\ 0 <= C /\ C <= T

\* three questions parsed, the limit 2 applied, one of the two answered correctly
C5_Witness ==
  /\ pc = "Done"
  /\ Len(parsed) = 3
  /\ cfg.limit = Some(2)
  /\ printedScore = Some(<<1, 2>>)
  /\ finalScore = Some(<<1, 2>>)

\* C6 as stated: in every session state, the end-of-input state included,
\* running_total is the number of questions answered with an accepted input.
C6_CountsAnswered ==
  InSession => running_total = Answered /\ correct = nCorrectMsgs

\* C6 as amended: running_total is incremented once per displayed question,
\* before its input is read, and correct once per correct answer; it equals
\* the number of answered questions when a score has just been printed and
\* after the final summary, and that number plus one while a question is
\* awaiting input and in the state the session ends in through end-of-input.
C6_CountsDisplayed ==
  /\ running_total = nHeaders
  /\ correct = nCorrectMsgs
  /\ pc \in {"Loop", "Scored", "Done"} => running_total = Answered
  /\ pc \in {"AwaitingInput", "End"} => running_total = Answered + 1

\* end-of-input on the second question: one answered, two counted
C6_Witness ==
  /\ pc = "End"
  /\ running_total = 2
  /\ Answered = 1

\* C7: once end-of-input has arrived the session has terminated: nothing
\* more is displayed or printed, the current question has no running score,
\* and there is no final score and no pass / non-pass message.
C7_EndOfInputStops ==
  /\ [](lastMsg = "closed" =>
          /\ pc = "End"
          /\ finalScore = None
          /\ verdict = {}
          /\ nHeaders = idx
          /\ Answered = idx - 1
          /\ printedScore # None => Val(printedScore)[2] = idx - 1)
  /\ [][lastMsg # "closed"]_vars

\* end-of-input on the second question, after a correct first answer
C7_Witness ==
  /\ pc = "End"
  /\ lastMsg = "closed"
  /\ idx = 2
  /\ printedScore = Some(<<1, 1>>)

\* C8: after the last answer of a session with at least one question exactly
\* one of the two messages is printed, the pass message if and only if
\* 10 * correct >= 7 * total.
C8_PassThreshold ==
  /\ pc = "Done" =>
       /\ Len(questions) >= 1
       /\ Answered = Len(questions)
       /\ Cardinality(verdict) = 1
       /\ "pass" \in verdict <=> 10 * nCorrectMsgs >= 7 * Len(questions)
  /\ pc # "Done" => verdict = {}
  /\ (finalScore # None /\ Len(questions) >= 1) => pc = "Done"

\* 7 of 10 passes
C8_Witness ==
  /\ pc = "Done"
  /\ nCorrectMsgs = 7
  /\ Len(questions) = 10
  /\ verdict = {"pass"}

\* C9: for a non-empty parsed list and any limit the session ends completed
\* or through end-of-input; no error state is reachable.
C9_NoErrorState ==
  pc # "Error" /\ err = ""

\* C10: with a limit the session presents the first `limit` questions of the
\* (possibly shuffled) sequence and its total is min(limit, number of
\* questions); without a limit it presents all of them.
C10_LimitTakesFirst ==
  InSession =>
    IF cfg.limit = None
    THEN questions = parsed /\ total = Len(parsed)
    ELSE /\ total = Min(Val(cfg.limit), Len(parsed))
         /\ questions = SubSeq(parsed, 1, total)

\* C11 as stated: given the same seed and the same parsed questions, a second
\* run with shuffle_questions presents the questions in the order of the
\* first run, whether it parses the document anew or is handed the list
\* object of the first run
C11_SameOrderAnyRerun ==
  (run # "first" /\ InSession /\ cfg.shuffle_questions /\ cfg.seed # None)
    => Order(questions) = Val(firstOrder)

\* C11 (amended): given the same seed, a second run with shuffle_questions
\* that is handed a freshly parsed list of the same document presents the
\* questions in the order of the first run
C11_SameOrderFreshRun ==
  (run = "fresh" /\ InSession /\ cfg.shuffle_questions /\ cfg.seed # None)
    => Order(questions) = Val(firstOrder)

\* a second run on a fresh list has ended and the shuffle had moved a question
C11_Witness ==
  /\ run = "fresh"
  /\ pc = "Done"
  /\ cfg.shuffle_questions /\ cfg.seed # None
  /\ Val(firstOrder) # [i \in 1 .. Len(questions) |-> i]

(* ------------------- the parser's output, as claimed ------------------- *)

\* the positions of the question lines of a document
QuestionPositions(d) == {i \in DOMAIN d : d[i].kind = "question"}

\* the last line of the block that the question line at position p opens
BlockLast(d, p) ==
  LET later == {i \in QuestionPositions(d) : i > p}
  IN IF later = {} THEN Len(d) ELSE (CHOOSE i \in later : \A k \in later : i <= k) - 1

\* the elements of a set of positions in increasing order
Ascending(S) ==
  [k \in 1 .. Cardinality(S) |-> CHOOSE i \in S : Cardinality({j \in S : j <= i}) = k]

\* the positions of the lines of the given kind in the block opened at p
LinesOf(d, p, kind) == Ascending({i \in (p + 1) .. BlockLast(d, p) : d[i].kind = kind})

\* the letters of the choice lines of the block opened at p, in document order
ChoiceLettersOf(d, p) ==
  LET at == LinesOf(d, p, "choice") IN [k \in DOMAIN at |-> d[at[k]].letter]

\* the number an annotation names
NumberNamed ==
  ("(Choose one.)" :> 1) @@ ("(Choose two.)" :> 2) @@ ("(Choose three.)" :> 3)

\* the number named by the first annotation of a text, None when it has none
NamedIn(text) ==
  LET at == {i \in DOMAIN text : text[i] \in DOMAIN NumberNamed}
  IN IF at = {} THEN None
     ELSE Some(NumberNamed[text[CHOOSE i \in at : \A k \in at : i <= k]])

\* a canonical document: every line belongs to a block, and every block is a
\* question line, one or more choice lines with distinct letters, and one
\* answer line
Canonical(d) ==
  /\ d # <<>> => d[1].kind = "question"
  /\ \A p \in QuestionPositions(d) :
       LET e == BlockLast(d, p)
       IN /\ e >= p + 2
          /\ d[e].kind = "answer"
          /\ \A i \in (p + 1) .. (e - 1) : d[i].kind = "choice"
          /\ \A i, j \in (p + 1) .. (e - 1) : d[i].letter = d[j].letter => i = j

\* C12: on a canonical document the parser returns one Question per block,
\* in document order, with the number of the block's question line, the
\* letters of its choice lines in document order, the letters of its answer
\* line, and as choose_n the number its question line names, or else the
\* number of letters of its answer line
C12_CanonicalParse ==
  (pc = "main" /\ Canonical(doc)) =>
    LET at == Ascending(QuestionPositions(doc))
    IN /\ Len(parsed) = Len(at)
       /\ \A k \in DOMAIN at :
            LET p == at[k]
                e == BlockLast(doc, p)
                q == parsed[k]
            IN /\ q.number = doc[p].number
               /\ q.choices = ChoiceLettersOf(doc, p)
               /\ q.correct_letters = doc[e].letters
               /\ q.choose_n = IF NamedIn(doc[p].text) # None THEN NamedIn(doc[p].text)
                                ELSE Some(Len(doc[e].letters))

\* a canonical document of two blocks has been parsed: one block names a
\* number that is not the number of its correct letters, the other names none
C12_Witness ==
  /\ pc = "main"
  /\ Canonical(doc)
  /\ Len(parsed) = 2
  /\ \E p \in QuestionPositions(doc) :
       NamedIn(doc[p].text) \notin {None, Some(Len(doc[BlockLast(doc, p)].letters))}
  /\ \E p \in QuestionPositions(doc) : NamedIn(doc[p].text) = None

\* the question lines whose block has at least one choice line
WithChoices(d) == {p \in QuestionPositions(d) : ChoiceLettersOf(d, p) # <<>>}

\* C13: for every document, every Question the parser returns has at least
\* one choice: the questions returned are, in order, those of the blocks
\* that have a choice line, so a block without choice lines is left out
\* wherever it stands and the lines before the first question line give
\* no Question
C13_OnlyWithChoices ==
  pc = "main" =>
    /\ \A k \in DOMAIN parsed : parsed[k].choices # <<>>
    /\ Order(parsed) = [k \in 1 .. Cardinality(WithChoices(doc)) |->
                          doc[Ascending(WithChoices(doc))[k]].number]

\* a document has been parsed in which a block without choices is followed
\* by a block with a choice and the last block has no choice either
C13_Witness ==
  /\ pc = "main"
  /\ \E p \in QuestionPositions(doc) \ WithChoices(doc) : BlockLast(doc, p) < Len(doc)
  /\ \E p \in QuestionPositions(doc) \ WithChoices(doc) : BlockLast(doc, p) = Len(doc)
  /\ parsed # <<>>

\* the block of the k-th question the parser returns
BlockOf(d, k) == Ascending(WithChoices(d))[k]

\* C16 as stated: every Question the parser returns has as choose_n the
\* number named by the annotation of its prompt, wherever in the prompt the
\* annotation stands, and without an annotation the number of its correct
\* letters (unset only when it has no correct letter)
C16_ChooseNFromPrompt ==
  pc = "main" =>
    \A k \in DOMAIN parsed :
      LET q == parsed[k]
      IN IF NamedIn(q.text) # None THEN q.choose_n = NamedIn(q.text)
         ELSE q.choose_n = (IF q.correct_letters = <<>> THEN None
                            ELSE Some(Len(q.correct_letters)))

\* C16 (amended): every Question the parser returns has as choose_n the
\* number named by the annotation of its question line when that line has
\* one, and otherwise the number of letters of the first answer line of its
\* block; it is unset only when the question has no correct letter
C16_ChooseNFromQuestionLine ==
  pc = "main" =>
    \A k \in DOMAIN parsed :
      LET q == parsed[k]
          p == BlockOf(doc, k)
          answers == LinesOf(doc, p, "answer")
      IN /\ q.choose_n = IF NamedIn(doc[p].text) # None THEN NamedIn(doc[p].text)
                          ELSE IF answers # <<>> THEN Some(Len(doc[answers[1]].letters))
                          ELSE None
         /\ q.choose_n = None => q.correct_letters = <<>>

\* the parser has returned a question whose annotation stands on a
\* continuation line and names another number than its choose_n
C16_Witness ==
  /\ pc = "main"
  /\ \E k \in DOMAIN parsed :
       /\ NamedIn(doc[BlockOf(doc, k)].text) = None
       /\ NamedIn(parsed[k].text) \notin {None, parsed[k].choose_n}

\* C17: in every Question the parser returns, for every document, the choice
\* letters are pairwise distinct, uppercase, and in the order of their
\* choice lines in the document
C17_DistinctChoiceLetters ==
  pc = "main" =>
    \A k \in DOMAIN parsed :
      LET q == parsed[k]
      IN /\ \A i, j \in DOMAIN q.choices : q.choices[i] = q.choices[j] => i = j
         /\ \A i \in DOMAIN q.choices : q.choices[i] \in {"A", "B", "C", "D"}
         /\ q.choices = ChoiceLettersOf(doc, BlockOf(doc, k))

(* ------------------------ the sanitizer, as claimed -------------------- *)

Brackets == {"<", ">", "&lt;", "&gt;"}

\* C14: the sanitizer is idempotent: for every text over the atoms (text,
\* whitespace, the four brackets and the details words), cleaning the
\* cleaned text gives the cleaned text
C14_Idempotent ==
  pc = "recleaned" => Val(recleaned) = Val(cleaned)

Canon(qs) == [i \in DOMAIN qs |-> <<qs[i].choices, qs[i].correct_letters>>]

\* C18: shuffling the choices reorders only the working copy: no step of the
\* session changes the choices or the correct letters of any question, and
\* the working copy against which an input is validated has exactly the
\* letters of the question's own choices
C18_ShuffleFrame ==
  /\ []((pc = "AwaitingInput") => ToSet(choices) = ToSet(questions[idx].choices))
  /\ [][(pc \in {"Loop", "AwaitingInput", "Scored"}) =>
         (Canon(questions') = Canon(questions) /\ Canon(parsed') = Canon(parsed))]_vars

\* with shuffle_choices the working copy of the question on display is in
\* another order than the question's choices
C18_Witness ==
  /\ pc = "AwaitingInput"
  /\ cfg.shuffle_choices
  /\ choices # questions[idx].choices

\* a correct letter of the question is not among its choice letters
OffKey(q) == ~(ToSet(q.correct_letters) \subseteq ToSet(q.choices))

\* C19: a question with a correct letter that is not among its choice letters
\* is presented, no input it accepts is scored correct, in single-select
\* and in multi-select mode alike, and an accepted input is scored incorrect
C19_OffKeyNeverCorrect ==
  /\ (pc = "AwaitingInput" /\ OffKey(questions[idx])) =>
        \A raw \in Inputs : ~ENABLED (SubmitInput(raw) /\ pc' = "Scored" /\ is_correct')
  /\ (pc = "Scored" /\ OffKey(questions[idx])) =>
        (~is_correct /\ lastMsg = "score" /\ nIncorrectMsgs > 0)

\* an off-key multi-select question has been answered with two of its
\* choices and scored incorrect, after an off-key question was displayed
C19_Witness ==
  /\ pc = "Scored"
  /\ OffKey(questions[idx])
  /\ MultiSelectMode(questions[idx])
  /\ letters = <<"A", "B">>
  /\ ~is_correct

\* an off-key single-select question has been answered and scored incorrect
C19_WitnessSingle ==
  /\ pc = "Scored"
  /\ OffKey(questions[idx])
  /\ ~MultiSelectMode(questions[idx])
  /\ ~is_correct

\* C20: every question the session presents admits an input that passes
\* validation, so that a user who keeps typing can always leave the
\* validation loop, also for a question whose annotation asks for more
\* letters than it has choices
C20_SomeInputAccepted ==
  pc = "AwaitingInput" =>
    \E raw \in Inputs : ENABLED (SubmitInput(raw) /\ pc' # "AwaitingInput")

====
